---------------------------- MODULE Spec2Model ----------------------------
(***************************************************************************)
(* Gas-consumption map application: the data-derivation layer              *)
(* (utils/dataUtils.ts), the map component (components/GasConsumptionMap)  *)
(* and the municipality detail page (pages/MunicipalityDetail.tsx).        *)
(*                                                                         *)
(* Strings are sequences of chunks.  A chunk is a single character for     *)
(* the characters the code looks at one by one (space, parentheses,        *)
(* hyphen, apostrophe) and a run of letters otherwise, so that every       *)
(* occurrence of a listed suffix in a modelled string lies on chunk        *)
(* boundaries and chunk-wise matching is character-wise matching.  The     *)
(* strings slugify is studied on are sequences of single characters; the   *)
(* names of the datasets hold runs of letters and no apostrophe, so that   *)
(* no operation on them joins two runs.                                    *)
(***************************************************************************)
EXTENDS Integers, Sequences, FiniteSets, TLC

VARIABLES
    \* normalizeMunicipalityName applied to one input string
    nmInput, nmPhase, nmCur, nmRem, nmOut, nmOut2,
    \* getColorForConsumption and the Legend component applied to one input
    colValue, colMin, colMax, colPhase, colOut, legendItems,
    \* one query on a loaded dataset: the data array, the function called,
    \* its argument and what it returned
    dsData, qFn, qArg, qRet,
    \* the map page: the file the loader fetches, MapView's selectedYear,
    \* the state of GasConsumptionMap, and the dependencies its second
    \* effect last ran with
    file, selectedYear, geoData, consumptionData, consumptionByMunicipality,
    hoveredMunicipality, consumptionRange, effectDeps,
    \* the detail page a click on the map leads to: the route parameter slug
    \* and the state its load effect sets (data, municipalityName, records)
    detailSlug, detailData, detailName, detailRecords,
    \* slugify applied to one input string, to its own result, and to a
    \* second string derived from the input
    sgInput, sgPhase, sgOut, sgOut2, sgOther, sgOtherOut,
    \* a page's dataset in memory under a sequence of calls: the array as the
    \* loader returned it, the array as it is now, the number of calls made
    \* and the last function called
    loadedData, liveData, callCount, lastCall

nmVars == <<nmInput, nmPhase, nmCur, nmRem, nmOut, nmOut2>>

colVars == <<colValue, colMin, colMax, colPhase, colOut, legendItems>>

dsVars == <<dsData, qFn, qArg, qRet>>

uiVars ==
    <<file, selectedYear, geoData, consumptionData, consumptionByMunicipality,
      hoveredMunicipality, consumptionRange, effectDeps,
      detailSlug, detailData, detailName, detailRecords>>

\* the state of the detail page
detailVars == <<detailSlug, detailData, detailName, detailRecords>>

sgVars == <<sgInput, sgPhase, sgOut, sgOut2, sgOther, sgOtherOut>>

memVars == <<loadedData, liveData, callCount, lastCall>>

vars == <<nmVars, colVars, dsVars, uiVars, sgVars, memVars>>

\* what the actions of one specification leave alone: the variables of the
\* other ones
nmOthers == <<colVars, dsVars, uiVars, sgVars, memVars>>

colOthers == <<nmVars, dsVars, uiVars, sgVars, memVars>>

dsOthers == <<nmVars, colVars, uiVars, sgVars, memVars>>

uiOthers == <<nmVars, colVars, dsVars, sgVars, memVars>>

sgOthers == <<nmVars, colVars, dsVars, uiVars, memVars>>

memOthers == <<nmVars, colVars, dsVars, uiVars, sgVars>>

\* JavaScript's null / undefined where a number, a colour or an object is
\* expected (one marker: the code under study tests them alike)
NoValue == [null |-> TRUE]

\* null where a string is expected: a one-chunk sequence that is no string
\* of the model
NoName == <<"<null>">>

--------------------------------------------------------------------------
(* The variables of a specification that is not the one being run *)

ColourIdle ==
    /\ colValue = NoValue
    /\ colMin = NoValue
    /\ colMax = NoValue
    /\ colPhase = "idle"
    /\ colOut = NoValue
    /\ legendItems = <<>>

DataIdle ==
    /\ dsData = <<>>
    /\ qFn = "idle"
    /\ qArg = NoValue
    /\ qRet = NoValue

MapIdle ==
    /\ file = <<>>
    /\ selectedYear = 0
    /\ geoData = NoValue
    /\ consumptionData = NoValue
    /\ consumptionByMunicipality = <<>>
    /\ hoveredMunicipality = NoName
    /\ consumptionRange = NoValue
    /\ effectDeps = NoValue
    /\ detailSlug = NoName
    /\ detailData = NoValue
    /\ detailName = NoName
    /\ detailRecords = <<>>

SlugIdle ==
    /\ sgInput = NoName
    /\ sgPhase = "idle"
    /\ sgOut = NoName
    /\ sgOut2 = NoName
    /\ sgOther = NoName
    /\ sgOtherOut = NoName

MemoryIdle ==
    /\ loadedData = <<>>
    /\ liveData = <<>>
    /\ callCount = 0
    /\ lastCall = "idle"

NamesIdle ==
    /\ nmInput = NoName
    /\ nmPhase = "idle"
    /\ nmCur = NoName
    /\ nmRem = {}
    /\ nmOut = NoName
    /\ nmOut2 = NoName

--------------------------------------------------------------------------
(* Numbers.  A JavaScript number is modelled as an exact fraction          *)
(* [num, den] in lowest terms with den > 0, and the three values that are  *)
(* no fraction as den = 0: NaN (0/0), Infinity (1/0), -Infinity (-1/0).    *)
(* On the bounded inputs of this module the doubles of the code round to   *)
(* the same integers as the exact fractions.                               *)

Abs(n) == IF n < 0 THEN -n ELSE n

Sign(n) == IF n < 0 THEN -1 ELSE IF n > 0 THEN 1 ELSE 0

RECURSIVE Gcd(_, _)
Gcd(a, b) == IF b = 0 THEN a ELSE Gcd(b, a % b)

NaN == [num |-> 0, den |-> 0]

Infinity == [num |-> 1, den |-> 0]

NegInfinity == [num |-> -1, den |-> 0]

IsNaN(x) == x.den = 0 /\ x.num = 0

IsInfinite(x) == x.den = 0 /\ x.num # 0

IsFinite(x) == x.den # 0

\* the fraction n/d, d # 0, in lowest terms
Frac(n, d) ==
    LET g == Gcd(Abs(n), Abs(d))
        s == Sign(d)
    IN [num |-> (s * n) \div g, den |-> (s * d) \div g]

Num(n) == [num |-> n, den |-> 1]

IsInteger(x) == x.den = 1

Neg(x) == [num |-> -x.num, den |-> x.den]

\* x + y
NumAdd(x, y) ==
    IF IsNaN(x) \/ IsNaN(y) THEN NaN
    ELSE IF IsInfinite(x) /\ IsInfinite(y)
         THEN (IF x.num = y.num THEN x ELSE NaN)
    ELSE IF IsInfinite(x) THEN x
    ELSE IF IsInfinite(y) THEN y
    ELSE Frac(x.num * y.den + y.num * x.den, x.den * y.den)

\* x - y
NumSub(x, y) == NumAdd(x, Neg(y))

\* x * y
NumMul(x, y) ==
    IF IsNaN(x) \/ IsNaN(y) THEN NaN
    ELSE IF IsInfinite(x) \/ IsInfinite(y)
         THEN [num |-> Sign(x.num) * Sign(y.num), den |-> 0]
    ELSE Frac(x.num * y.num, x.den * y.den)

\* x / y: a finite x over 0 is an infinity of x's sign, 0 / 0 is NaN
NumDiv(x, y) ==
    IF IsNaN(x) \/ IsNaN(y) THEN NaN
    ELSE IF IsInfinite(x)
         THEN (IF IsInfinite(y) THEN NaN
               ELSE [num |-> x.num * (IF y.num < 0 THEN -1 ELSE 1), den |-> 0])
    ELSE IF IsInfinite(y) THEN Num(0)
    ELSE IF y.num = 0 THEN [num |-> Sign(x.num), den |-> 0]
    ELSE Frac(x.num * y.den, x.den * y.num)

\* x < y, false when either is NaN
NumLess(x, y) ==
    /\ ~IsNaN(x)
    /\ ~IsNaN(y)
    /\ IF IsInfinite(x) \/ IsInfinite(y)
       THEN (IF IsInfinite(x) /\ IsInfinite(y) THEN x.num < y.num
             ELSE IF IsInfinite(x) THEN x.num < 0
             ELSE y.num > 0)
       ELSE x.num * y.den < y.num * x.den

NumLeq(x, y) == NumLess(x, y) \/ (~IsNaN(x) /\ x = y)

\* a rounding that cuts the fraction off (Math.floor)
MathRound_down(x) ==
    IF ~IsFinite(x) THEN x
    ELSE Num(x.num \div x.den)

\* Math.round: the nearest integer, a half goes up; NaN and the infinities
\* stay what they are
MathRound(x) ==
    IF ~IsFinite(x) THEN x
    ELSE Num((2 * x.num + x.den) \div (2 * x.den))

--------------------------------------------------------------------------
(* Strings *)

SP == " "
LP == "("
RP == ")"

\* String.prototype.trim: whitespace at both ends
IsWhitespace(c) == c = SP

RECURSIVE TrimStart(_)
TrimStart(s) ==
    IF s # <<>> /\ IsWhitespace(Head(s)) THEN TrimStart(Tail(s)) ELSE s

RECURSIVE TrimEnd(_)
TrimEnd(s) ==
    IF s # <<>> /\ IsWhitespace(s[Len(s)])
    THEN TrimEnd(SubSeq(s, 1, Len(s) - 1))
    ELSE s

Trim(s) == TrimEnd(TrimStart(s))

\* whether pat occurs in s starting at position i (1-based)
MatchesAt(s, pat, i) ==
    /\ i >= 1
    /\ i + Len(pat) - 1 <= Len(s)
    /\ SubSeq(s, i, i + Len(pat) - 1) = pat

Occurs(s, pat) == \E i \in 1..Len(s) : MatchesAt(s, pat, i)

\* String.prototype.replace(pattern: string, ""): only the FIRST occurrence
\* of a string pattern is replaced
ReplaceFirst(s, pat) ==
    IF Occurs(s, pat)
    THEN LET i == CHOOSE j \in 1..Len(s) :
                    /\ MatchesAt(s, pat, j)
                    /\ \A k \in 1..(j - 1) : ~MatchesAt(s, pat, k)
         IN SubSeq(s, 1, i - 1) \o SubSeq(s, i + Len(pat), Len(s))
    ELSE s

\* the suffix literals of normalizeMunicipalityName, in the order of the
\* replace chain.  Entry 6 is the literal as the source file holds it: the
\* letters "Frysl", the two characters U+221A U+00A2 (one chunk), "n".
Suffixes ==
    << <<SP, LP, "gemeente", RP>>,
       <<SP, LP, "Utrecht", RP>>,
       <<SP, LP, "Groningen", RP>>,
       <<SP, LP, "Limburg", RP>>,
       <<SP, LP, "Friesland", RP>>,
       <<SP, LP, "Frysl", "<U+221A U+00A2>", "n", RP>>,
       <<SP, LP, "Noord", "-", "Brabant", RP>>,
       <<SP, LP, "Gelderland", RP>>,
       <<SP, LP, "Noord", "-", "Holland", RP>>,
       <<SP, LP, "Zuid", "-", "Holland", RP>>,
       <<SP, LP, "Overijssel", RP>> >>

SuffixIds == 1..Len(Suffixes)

\* the replace chain from suffix k on
RECURSIVE StripFrom(_, _)
StripFrom(s, k) ==
    IF k > Len(Suffixes) THEN s
    ELSE StripFrom(ReplaceFirst(s, Suffixes[k]), k + 1)

normalizeMunicipalityName_noTrim(name) == StripFrom(name, 1)

normalizeMunicipalityName(name) == Trim(StripFrom(name, 1))

--------------------------------------------------------------------------
(* slugify and findMunicipalityBySlug *)

\* String.prototype.toLowerCase on a chunk: the capitalised chunks of the
\* model and their lower case; every other chunk has no upper-case letter
LowerCaseOf ==
    [c \in {"Laren", "Utrecht", "Groningen", "Limburg", "Friesland", "Frysl",
            "Noord", "Brabant", "Gelderland", "Holland", "Zuid", "Overijssel",
            "Beek", "Ede",
            "A", "<U+00C9>"}
       |-> CASE c = "Laren" -> "laren"
             [] c = "Beek" -> "beek"
             [] c = "Ede" -> "ede"
             [] c = "A" -> "a"
             [] c = "<U+00C9>" -> "<U+00E9>"
             [] c = "Utrecht" -> "utrecht"
             [] c = "Groningen" -> "groningen"
             [] c = "Limburg" -> "limburg"
             [] c = "Friesland" -> "friesland"
             [] c = "Frysl" -> "frysl"
             [] c = "Noord" -> "noord"
             [] c = "Brabant" -> "brabant"
             [] c = "Gelderland" -> "gelderland"
             [] c = "Holland" -> "holland"
             [] c = "Zuid" -> "zuid"
             [] c = "Overijssel" -> "overijssel"]

ToLowerCase(s) ==
    [i \in 1..Len(s) |->
        IF s[i] \in DOMAIN LowerCaseOf THEN LowerCaseOf[s[i]] ELSE s[i]]

\* the character class of the first replace of slugify, as the source file
\* holds it: the straight apostrophe (twice)
IsApostrophe(c) == c = "'"

\* the chunks that are runs of a-z and 0-9: not the other characters of the
\* model, and not a chunk that holds an upper-case letter
IsAlnum(c) ==
    /\ c \notin {SP, LP, RP, "-", "'", ".", "<U+2019>", "<U+2018>",
                 "<U+221A U+00A2>", "<U+00E2>", "<U+00E9>"}
    /\ c \notin DOMAIN LowerCaseOf

\* .replace(/['']/g, ""): every apostrophe goes
RECURSIVE StripApostrophes(_)
StripApostrophes(s) ==
    IF s = <<>> THEN <<>>
    ELSE LET rest == StripApostrophes(Tail(s))
         IN IF IsApostrophe(Head(s)) THEN rest ELSE <<Head(s)>> \o rest

\* .replace(/[^a-z0-9]+/g, "-"): every run of other characters is one hyphen
RECURSIVE HyphenateRuns(_)
HyphenateRuns(s) ==
    IF s = <<>> THEN <<>>
    ELSE LET rest == HyphenateRuns(Tail(s))
         IN IF IsAlnum(Head(s)) THEN <<Head(s)>> \o rest
            ELSE IF rest # <<>> /\ Head(rest) = "-" THEN rest
            ELSE <<"-">> \o rest

\* .replace(/^-|-$/g, ""): a hyphen at the start and a hyphen at the end
TrimHyphens(s) ==
    LET t == IF s # <<>> /\ Head(s) = "-" THEN Tail(s) ELSE s
    IN IF t # <<>> /\ t[Len(t)] = "-" THEN SubSeq(t, 1, Len(t) - 1) ELSE t

\* a slugify that trims the hyphens before it puts them in
slugify_trimFirst(name) ==
    HyphenateRuns(TrimHyphens(StripApostrophes(ToLowerCase(name))))

\* a slugify without toLowerCase
slugify_noLowerCase(name) == TrimHyphens(HyphenateRuns(StripApostrophes(name)))

slugify(name) == TrimHyphens(HyphenateRuns(StripApostrophes(ToLowerCase(name))))

\* new Set(data.data.map((r) => r.municipality)): the distinct names in the
\* order in which they are first seen
RECURSIVE DistinctInOrder(_)
DistinctInOrder(s) ==
    IF s = <<>> THEN <<>>
    ELSE LET front == DistinctInOrder(SubSeq(s, 1, Len(s) - 1))
             last == s[Len(s)]
         IN IF \E i \in 1..Len(front) : front[i] = last
            THEN front
            ELSE Append(front, last)

Municipalities(data) ==
    DistinctInOrder([i \in 1..Len(data) |-> data[i].municipality])

\* a lookup that compares the name itself, not its slug, with the slug
RECURSIVE FindFrom_rawName(_, _, _)
FindFrom_rawName(names, slug, i) ==
    IF i > Len(names) THEN NoName
    ELSE IF names[i] = slug THEN names[i]
    ELSE FindFrom_rawName(names, slug, i + 1)

\* the loop of findMunicipalityBySlug from the i-th distinct name on
RECURSIVE FindFrom(_, _, _)
FindFrom(names, slug, i) ==
    IF i > Len(names) THEN NoName
    ELSE IF slugify(names[i]) = slug THEN names[i]
    ELSE FindFrom(names, slug, i + 1)

\* a lookup that returns the last match instead of the first
RECURSIVE FindLastFrom(_, _, _)
FindLastFrom(names, slug, i) ==
    IF i < 1 THEN NoName
    ELSE IF slugify(names[i]) = slug THEN names[i]
    ELSE FindLastFrom(names, slug, i - 1)

findMunicipalityBySlug_last(data, slug) ==
    FindLastFrom(Municipalities(data), slug, Len(Municipalities(data)))

findMunicipalityBySlug(data, slug) == FindFrom(Municipalities(data), slug, 1)

--------------------------------------------------------------------------
(* Objects used as maps with string keys: the entries in the order in      *)
(* which the keys were first set, which is the order of Object.entries     *)

ObjHas(obj, k) == \E i \in 1..Len(obj) : obj[i].key = k

\* obj[k], undefined when the key is not set
ObjGet(obj, k) ==
    IF ObjHas(obj, k)
    THEN obj[CHOOSE i \in 1..Len(obj) : obj[i].key = k].value
    ELSE NoValue

\* obj[k] = v
ObjSet(obj, k, v) ==
    IF ObjHas(obj, k)
    THEN [i \in 1..Len(obj) |->
            IF obj[i].key = k THEN [key |-> k, value |-> v] ELSE obj[i]]
    ELSE Append(obj, [key |-> k, value |-> v])

\* obj[k] = v that keeps the value of a key already set
ObjSetIfNew(obj, k, v) ==
    IF ObjHas(obj, k) THEN obj ELSE Append(obj, [key |-> k, value |-> v])

ObjKeys(obj) == {obj[i].key : i \in 1..Len(obj)}

--------------------------------------------------------------------------
(* Arrays *)

\* x put into a t that is sorted from the greatest key down
RECURSIVE InsertSorted_descending(_, _)
InsertSorted_descending(t, x) ==
    IF t = <<>> THEN <<x>>
    ELSE IF NumLess(Head(t).key, x.key) THEN <<x>> \o t
    ELSE <<Head(t)>> \o InsertSorted_descending(Tail(t), x)

\* x put into the sorted t behind every element whose key is not greater
RECURSIVE InsertSorted(_, _)
InsertSorted(t, x) ==
    IF t = <<>> THEN <<x>>
    ELSE IF NumLess(x.key, Head(t).key) THEN <<x>> \o t
    ELSE <<Head(t)>> \o InsertSorted(Tail(t), x)

RECURSIVE SortKeyed(_)
SortKeyed(s) ==
    IF s = <<>> THEN <<>>
    ELSE InsertSorted(SortKeyed(SubSeq(s, 1, Len(s) - 1)), s[Len(s)])

\* Array.prototype.sort((a, b) => key(a) - key(b)), keys[i] the key of s[i]:
\* ascending by key, and stable: elements of equal key keep their order
StableSort(s, keys) ==
    LET keyed == [i \in 1..Len(s) |-> [item |-> s[i], key |-> keys[i]]]
        sorted == SortKeyed(keyed)
    IN [i \in 1..Len(s) |-> sorted[i].item]

\* the keys of the comparators of the source
Values(entries) == [i \in 1..Len(entries) |-> entries[i].value]

Consumptions(records) ==
    [i \in 1..Len(records) |-> records[i].gas_consumption]

Years(records) == [i \in 1..Len(records) |-> Num(records[i].year)]

\* values.reduce((a, b) => a + b, 0)
RECURSIVE Sum(_)
Sum(values) ==
    IF values = <<>> THEN Num(0)
    ELSE NumAdd(Sum(SubSeq(values, 1, Len(values) - 1)), values[Len(values)])

\* Math.min(...values), Math.max(...values) of a non-empty array
MathMin(values) ==
    CHOOSE v \in {values[i] : i \in 1..Len(values)} :
        \A i \in 1..Len(values) : NumLeq(v, values[i])

MathMax(values) ==
    CHOOSE v \in {values[i] : i \in 1..Len(values)} :
        \A i \in 1..Len(values) : NumLeq(values[i], v)

--------------------------------------------------------------------------
(* The aggregations of dataUtils.ts.  data is the array data.data of       *)
(* records [municipality, year, gas_consumption].                          *)

\* the loop of getConsumptionByYear over the first n records
RECURSIVE ConsumptionByYearUpTo(_, _, _)
ConsumptionByYearUpTo(data, year, n) ==
    IF n = 0 THEN <<>>
    ELSE LET result == ConsumptionByYearUpTo(data, year, n - 1)
             record == data[n]
         IN IF record.year = year
            THEN ObjSet(result, normalizeMunicipalityName(record.municipality),
                        record.gas_consumption)
            ELSE result

\* the same loop where the first record of a name wins
RECURSIVE ConsumptionByYearFirstWins(_, _, _)
ConsumptionByYearFirstWins(data, year, n) ==
    IF n = 0 THEN <<>>
    ELSE LET result == ConsumptionByYearFirstWins(data, year, n - 1)
             record == data[n]
         IN IF record.year = year
            THEN ObjSetIfNew(result,
                             normalizeMunicipalityName(record.municipality),
                             record.gas_consumption)
            ELSE result

getConsumptionByYear_firstWins(data, year) ==
    ConsumptionByYearFirstWins(data, year, Len(data))

getConsumptionByYear(data, year) == ConsumptionByYearUpTo(data, year, Len(data))

--------------------------------------------------------------------------
(* The map component's ranking of the selected year (GasConsumptionMap)    *)

\* entries.forEach(([name], index) => rankMap[name] = index + 1)
RECURSIVE RankMapUpTo(_, _)
RankMapUpTo(entries, n) ==
    IF n = 0 THEN <<>>
    ELSE ObjSet(RankMapUpTo(entries, n - 1), entries[n].key, n)

\* a ranking that counts from 0
RECURSIVE RankMapFromZero(_, _)
RankMapFromZero(entries, n) ==
    IF n = 0 THEN <<>>
    ELSE ObjSet(RankMapFromZero(entries, n - 1), entries[n].key, n - 1)

HasValue(e) == e.value # NoValue

rankings_fromZero(byMunicipality) ==
    LET kept == SelectSeq(byMunicipality, HasValue)
        entries == StableSort(kept, Values(kept))
    IN [rankMap |-> RankMapFromZero(entries, Len(entries)),
        total |-> Len(entries)]

rankings(byMunicipality) ==
    LET kept == SelectSeq(byMunicipality, HasValue)
        entries == StableSort(kept, Values(kept))
    IN [rankMap |-> RankMapUpTo(entries, Len(entries)), total |-> Len(entries)]

--------------------------------------------------------------------------
(* The detail page's memos (MunicipalityDetail) *)

YearsOf(data) == {data[i].year : i \in 1..Len(data)}

\* yearData.forEach((record, index) => rankings[year][normalizedName] = ...)
RECURSIVE YearRankingUpTo(_, _)
YearRankingUpTo(yearData, n) ==
    IF n = 0 THEN <<>>
    ELSE ObjSet(YearRankingUpTo(yearData, n - 1),
                normalizeMunicipalityName(yearData[n].municipality),
                [rank |-> n, total |-> Len(yearData)])

\* rankingsPerYear: for every year of the data, the ranking of that year
rankingsPerYear(data) ==
    [year \in YearsOf(data) |->
        LET OfYear(r) == r.year = year
            kept == SelectSeq(data, OfYear)
            yearData == StableSort(kept, Consumptions(kept))
        IN YearRankingUpTo(yearData, Len(yearData))]

\* nationalAverages: for every year, the rounded mean of its records
nationalAverages(data) ==
    [year \in YearsOf(data) |->
        LET OfYear(r) == r.year = year
            yearData == SelectSeq(data, OfYear)
            values == [i \in 1..Len(yearData) |-> yearData[i].gas_consumption]
        IN MathRound(NumDiv(Sum(values), Num(Len(values))))]

\* the effect's records of the municipality: filtered, then sorted by year
MunicipalityRecords(data, name) ==
    LET IsOfName(r) == r.municipality = name
        kept == SelectSeq(data, IsOfName)
    IN StableSort(kept, Years(kept))

\* ((record - prevRecord) / prevRecord) * 100
PercentChange(current, previous) ==
    NumMul(NumDiv(NumSub(current, previous), previous), Num(100))

\* a change that reads 0 where there is no record before
YearOverYearChange_zeroFirst(records, index) ==
    IF index > 1
    THEN PercentChange(records[index].gas_consumption,
                       records[index - 1].gas_consumption)
    ELSE Num(0)

\* the change written for records[index] (index from 1): null when there is
\* no record before it
YearOverYearChange(records, index) ==
    IF index > 1
    THEN PercentChange(records[index].gas_consumption,
                       records[index - 1].gas_consumption)
    ELSE NoValue

\* enrichedData of the records of municipalityName
enrichedData(data, municipalityName, records) ==
    IF records = <<>> \/ municipalityName = NoName THEN <<>>
    ELSE
    LET normalizedName == normalizeMunicipalityName(municipalityName)
        values == [i \in 1..Len(records) |-> records[i].gas_consumption]
        minValue == MathMin(values)
        maxValue == MathMax(values)
        perYear == rankingsPerYear(data)
        averages == nationalAverages(data)
    IN [index \in 1..Len(records) |->
          LET record == records[index]
              ranking == IF record.year \in DOMAIN perYear
                         THEN ObjGet(perYear[record.year], normalizedName)
                         ELSE NoValue
          IN [year |-> record.year,
              gas_consumption |-> record.gas_consumption,
              nationalAverage |-> IF record.year \in DOMAIN averages
                                  THEN averages[record.year] ELSE Num(0),
              rank |-> IF ranking = NoValue THEN 0 ELSE ranking.rank,
              totalMunicipalities |->
                  IF ranking = NoValue THEN 0 ELSE ranking.total,
              yearOverYearChange |-> YearOverYearChange(records, index),
              isMin |-> record.gas_consumption = minValue,
              isMax |-> record.gas_consumption = maxValue]]

--------------------------------------------------------------------------
(* Inputs of the name specification *)

\* how many of the listed suffixes (the first ones of the list) the input
\* names are built from
MaxInputSuffix == 2

InsertAt(s, i, t) == SubSeq(s, 1, i) \o t \o SubSeq(s, i + 1, Len(s))

\* what follows the municipality's own name: nothing, one suffix, two
\* suffixes in a row (also twice the same), one suffix inside another
NameTails ==
    LET P == 1..MaxInputSuffix IN
    {<<>>}
    \cup {Suffixes[i] : i \in P}
    \cup {Suffixes[i] \o Suffixes[j] : i, j \in P}
    \cup {InsertAt(Suffixes[i], 2, Suffixes[j]) : i, j \in P}

NameInputs ==
    {b \o t : b \in {<<"Laren">>, <<SP, "Laren">>}, t \in NameTails}

--------------------------------------------------------------------------
(* normalizeMunicipalityName: the specification of one call, of a second   *)
(* call on the result, and of the same removals made in any order          *)

InitNames ==
    /\ nmInput \in NameInputs
    /\ nmPhase = "input"
    /\ nmCur = nmInput
    /\ nmRem = SuffixIds
    /\ nmOut = NoName
    /\ nmOut2 = NoName
    /\ ColourIdle
    /\ DataIdle
    /\ MapIdle
    /\ SlugIdle
    /\ MemoryIdle

\* one removal of the chain, taken out of turn
StripInAnyOrder(k) ==
    /\ nmPhase \in {"input", "stripping"}
    /\ k \in nmRem
    /\ nmCur' = ReplaceFirst(nmCur, Suffixes[k])
    /\ nmRem' = nmRem \ {k}
    /\ nmPhase' = "stripping"
    /\ UNCHANGED <<nmInput, nmOut, nmOut2, nmOthers>>

\* the trim that ends the chain
TrimStripped ==
    /\ nmPhase = "stripping"
    /\ nmRem = {}
    /\ nmCur' = Trim(nmCur)
    /\ nmPhase' = "stripped"
    /\ UNCHANGED <<nmInput, nmRem, nmOut, nmOut2, nmOthers>>

CallNormalize ==
    /\ nmPhase = "input"
    /\ nmOut' = normalizeMunicipalityName(nmInput)
    /\ nmPhase' = "normalized"
    /\ UNCHANGED <<nmInput, nmCur, nmRem, nmOut2, nmOthers>>

CallNormalizeAgain ==
    /\ nmPhase = "normalized"
    /\ nmOut2' = normalizeMunicipalityName(nmOut)
    /\ nmPhase' = "renormalized"
    /\ UNCHANGED <<nmInput, nmCur, nmRem, nmOut, nmOthers>>

NextNames ==
    \/ \E k \in SuffixIds : StripInAnyOrder(k)
    \/ TrimStripped
    \/ CallNormalize
    \/ CallNormalizeAgain

--------------------------------------------------------------------------
(* getColorForConsumption and the Legend component *)

\* the two ends of the gradient (dataUtils.ts, the interpolation lines)
LightColour == [r |-> 254, g |-> 224, b |-> 210]

DarkColour == [r |-> 165, g |-> 15, b |-> 21]

\* the colour of "no data"
NoDataColour == [css |-> "#ccc"]

\* `rgb(${r}, ${g}, ${b})`
Rgb(r, g, b) == [css |-> "rgb", r |-> r, g |-> g, b |-> b]

\* a channel that runs from the dark end to the light one
Channel_reversed(light, dark, ratio) ==
    MathRound(NumAdd(Num(dark), NumMul(ratio, Num(light - dark))))

\* Math.round(light - ratio * (light - dark))
Channel(light, dark, ratio) ==
    MathRound(NumSub(Num(light), NumMul(ratio, Num(light - dark))))

\* the same with the ratio held to [0, 1]
ClampedRatio(ratio) ==
    IF NumLess(ratio, Num(0)) THEN Num(0)
    ELSE IF NumLess(Num(1), ratio) THEN Num(1)
    ELSE ratio

\* value: a number or NoValue; min, max: numbers
getColorForConsumption_clamped(value, min, max) ==
    IF value = NoValue THEN NoDataColour
    ELSE LET ratio == ClampedRatio(NumDiv(NumSub(value, min), NumSub(max, min)))
         IN Rgb(Channel(LightColour.r, DarkColour.r, ratio),
                Channel(LightColour.g, DarkColour.g, ratio),
                Channel(LightColour.b, DarkColour.b, ratio))

\* a function that gives the light end of the gradient to no value
getColorForConsumption_lightForNoValue(value, min, max) ==
    LET ratio == IF value = NoValue THEN Num(0)
                 ELSE NumDiv(NumSub(value, min), NumSub(max, min))
    IN Rgb(Channel(LightColour.r, DarkColour.r, ratio),
           Channel(LightColour.g, DarkColour.g, ratio),
           Channel(LightColour.b, DarkColour.b, ratio))

getColorForConsumption(value, min, max) ==
    IF value = NoValue THEN NoDataColour
    ELSE LET ratio == NumDiv(NumSub(value, min), NumSub(max, min))
         IN Rgb(Channel(LightColour.r, DarkColour.r, ratio),
                Channel(LightColour.g, DarkColour.g, ratio),
                Channel(LightColour.b, DarkColour.b, ratio))

\* the Legend component: steps + 1 items from min to max
LegendSteps == 5

Legend(min, max) ==
    LET stepSize == NumDiv(NumSub(max, min), Num(LegendSteps))
    IN [j \in 1..(LegendSteps + 1) |->
           LET value == NumAdd(min, NumMul(stepSize, Num(j - 1)))
           IN [value |-> MathRound(value),
               color |-> getColorForConsumption(value, min, max)]]

\* the largest bound of a colour range in the inputs
MaxColourBound == 4

ColourBounds == 0..MaxColourBound

\* the values: the halves from one below the range to one beyond it, and no
\* value
ColourValues ==
    {Frac(v, 2) : v \in -2..(2 * MaxColourBound + 2)} \cup {NoValue}

InitColour ==
    /\ colValue \in ColourValues
    /\ colMin \in {Num(m) : m \in ColourBounds}
    /\ colMax \in {Num(m) : m \in ColourBounds}
    /\ colPhase = "input"
    /\ colOut = NoValue
    /\ legendItems = <<>>
    /\ NamesIdle
    /\ DataIdle
    /\ MapIdle
    /\ SlugIdle
    /\ MemoryIdle

CallGetColor ==
    /\ colPhase = "input"
    /\ colOut' = getColorForConsumption(colValue, colMin, colMax)
    /\ colPhase' = "coloured"
    /\ UNCHANGED <<colValue, colMin, colMax, legendItems, colOthers>>

RenderLegend ==
    /\ colPhase = "input"
    /\ legendItems' = Legend(colMin, colMax)
    /\ colPhase' = "legend"
    /\ UNCHANGED <<colValue, colMin, colMax, colOut, colOthers>>

NextColour ==
    \/ CallGetColor
    \/ RenderLegend

--------------------------------------------------------------------------
(* The detail page's load effect, as far as the dataset decides it *)

\* what load() sets for the route parameter slug ("" is no slug)
DetailLoad(data, slug) ==
    IF slug = <<>>
    THEN [municipalityName |-> NoName, records |-> <<>>]
    ELSE LET name == findMunicipalityBySlug(data, slug)
         IN [municipalityName |-> name,
             records |-> IF name # NoName
                         THEN MunicipalityRecords(data, name)
                         ELSE <<>>]

--------------------------------------------------------------------------
(* Queries on one dataset: the inputs *)

\* the display names of the datasets: a plain name, the same name with a
\* listed suffix, and a name that differs from the first in case only
DataNames ==
    {<<"Laren">>, <<"Laren", SP, LP, "gemeente", RP>>, <<"laren">>}

DataYears == {2015, 2016}

DataValues == {Num(0), Num(10), Num(15)}

\* the longest dataset
MaxRecords == 3

DataRecords ==
    [municipality : DataNames, year : DataYears, gas_consumption : DataValues]

Datasets == UNION {[1..n -> DataRecords] : n \in 0..MaxRecords}

\* the slugs asked for: those of the names, one of no name, and the empty one
QuerySlugs == {slugify(n) : n \in DataNames} \cup {<<"beek">>, <<>>}

InitData ==
    /\ dsData \in Datasets
    /\ qFn = "loaded"
    /\ qArg = NoValue
    /\ qRet = NoValue
    /\ NamesIdle
    /\ ColourIdle
    /\ MapIdle
    /\ SlugIdle
    /\ MemoryIdle

QueryConsumptionByYear(year) ==
    /\ qFn = "loaded"
    /\ qFn' = "getConsumptionByYear"
    /\ qArg' = year
    /\ qRet' = getConsumptionByYear(dsData, year)
    /\ UNCHANGED <<dsData, dsOthers>>

QueryFindMunicipalityBySlug(slug) ==
    /\ qFn = "loaded"
    /\ qFn' = "findMunicipalityBySlug"
    /\ qArg' = slug
    /\ qRet' = findMunicipalityBySlug(dsData, slug)
    /\ UNCHANGED <<dsData, dsOthers>>

\* the map component's ranking for the selected year
QueryRankings(year) ==
    /\ qFn = "loaded"
    /\ qFn' = "rankings"
    /\ qArg' = year
    /\ qRet' = rankings(getConsumptionByYear(dsData, year))
    /\ UNCHANGED <<dsData, dsOthers>>

\* the detail page's rankings of every year
QueryRankingsPerYear ==
    /\ qFn = "loaded"
    /\ qFn' = "rankingsPerYear"
    /\ qArg' = NoValue
    /\ qRet' = rankingsPerYear(dsData)
    /\ UNCHANGED <<dsData, dsOthers>>

\* the detail page for the route /municipality/<slug>
QueryDetail(slug) ==
    /\ qFn = "loaded"
    /\ qFn' = "detail"
    /\ qArg' = slug
    /\ qRet' = LET loaded == DetailLoad(dsData, slug)
               IN [municipalityName |-> loaded.municipalityName,
                   records |-> loaded.records,
                   enrichedData |-> enrichedData(dsData,
                                                 loaded.municipalityName,
                                                 loaded.records)]
    /\ UNCHANGED <<dsData, dsOthers>>

NextData ==
    \/ \E year \in DataYears : QueryConsumptionByYear(year)
    \/ \E slug \in QuerySlugs : QueryFindMunicipalityBySlug(slug)
    \/ \E year \in DataYears : QueryRankings(year)
    \/ QueryRankingsPerYear
    \/ \E slug \in QuerySlugs : QueryDetail(slug)

--------------------------------------------------------------------------
(* getConsumptionRange *)

\* a loop that starts from min = 0 and max = 0
RECURSIVE ConsumptionRangeUpTo_fromZero(_, _)
ConsumptionRangeUpTo_fromZero(data, n) ==
    IF n = 0 THEN [min |-> Num(0), max |-> Num(0)]
    ELSE LET range == ConsumptionRangeUpTo_fromZero(data, n - 1)
             value == data[n].gas_consumption
         IN [min |-> IF NumLess(value, range.min) THEN value ELSE range.min,
             max |-> IF NumLess(range.max, value) THEN value ELSE range.max]

\* the loop of getConsumptionRange over the first n records
RECURSIVE ConsumptionRangeUpTo(_, _)
ConsumptionRangeUpTo(data, n) ==
    IF n = 0 THEN [min |-> Infinity, max |-> NegInfinity]
    ELSE LET range == ConsumptionRangeUpTo(data, n - 1)
             value == data[n].gas_consumption
         IN [min |-> IF NumLess(value, range.min) THEN value ELSE range.min,
             max |-> IF NumLess(range.max, value) THEN value ELSE range.max]

\* a range of the first record alone
getConsumptionRange_firstOnly(data) ==
    ConsumptionRangeUpTo(data, IF Len(data) = 0 THEN 0 ELSE 1)

getConsumptionRange(data) == ConsumptionRangeUpTo(data, Len(data))

--------------------------------------------------------------------------
(* getAvailableYears and the home page's calculateNationalAverages *)

\* years.add(record.year) for every record: a Set keeps the order in which
\* its elements were first added
YearsInOrder(data) == DistinctInOrder([i \in 1..Len(data) |-> data[i].year])

\* the years sorted from the first one up
getAvailableYears_ascending(data) ==
    LET years == YearsInOrder(data)
    IN StableSort(years, [i \in 1..Len(years) |-> Num(years[i])])

\* Array.from(years).sort((a, b) => b - a)
getAvailableYears(data) ==
    LET years == YearsInOrder(data)
    IN StableSort(years, [i \in 1..Len(years) |-> Num(0 - years[i])])

\* the loop of calculateNationalAverages over the first n records:
\* yearlyTotals[record.year] = {sum, count}
RECURSIVE YearlyTotalsUpTo(_, _)
YearlyTotalsUpTo(data, n) ==
    IF n = 0 THEN <<>>
    ELSE LET totals == YearlyTotalsUpTo(data, n - 1)
             record == data[n]
             old == IF ObjHas(totals, record.year)
                    THEN ObjGet(totals, record.year)
                    ELSE [sum |-> Num(0), count |-> 0]
         IN ObjSet(totals, record.year,
                   [sum |-> NumAdd(old.sum, record.gas_consumption),
                    count |-> old.count + 1])

\* Object.entries of an object whose keys are integers: from the least key
\* up, whatever the order in which the keys were set
IntegerKeyEntries(obj) ==
    StableSort(obj, [i \in 1..Len(obj) |-> Num(obj[i].key)])

calculateNationalAverages(data) ==
    LET entries == IntegerKeyEntries(YearlyTotalsUpTo(data, Len(data)))
        mapped == [i \in 1..Len(entries) |->
                     [year |-> entries[i].key,
                      average |-> MathRound(NumDiv(entries[i].value.sum,
                                                   Num(entries[i].value.count)))]]
    IN StableSort(mapped, Years(mapped))

--------------------------------------------------------------------------
(* The functions that sum a dataset up, each applied to one dataset *)

TotalsNames == {<<"Laren">>, <<"Beek">>}

\* the years of the datasets: two in a row and one after a gap
TotalsYears == {2015, 2016, 2018}

TotalsRecords ==
    [municipality : TotalsNames, year : TotalsYears,
     gas_consumption : DataValues]

TotalsDatasets == UNION {[1..n -> TotalsRecords] : n \in 0..MaxRecords}

InitTotals ==
    /\ dsData \in TotalsDatasets
    /\ qFn = "loaded"
    /\ qArg = NoValue
    /\ qRet = NoValue
    /\ NamesIdle
    /\ ColourIdle
    /\ MapIdle
    /\ SlugIdle
    /\ MemoryIdle

\* the home page's yearlyAverages
QueryCalculateNationalAverages ==
    /\ qFn = "loaded"
    /\ qFn' = "calculateNationalAverages"
    /\ qRet' = calculateNationalAverages(dsData)
    /\ UNCHANGED <<dsData, qArg, dsOthers>>

\* the detail page's nationalAverages
QueryNationalAverages ==
    /\ qFn = "loaded"
    /\ qFn' = "nationalAverages"
    /\ qRet' = nationalAverages(dsData)
    /\ UNCHANGED <<dsData, qArg, dsOthers>>

QueryConsumptionRange ==
    /\ qFn = "loaded"
    /\ qFn' = "getConsumptionRange"
    /\ qRet' = getConsumptionRange(dsData)
    /\ UNCHANGED <<dsData, qArg, dsOthers>>

QueryAvailableYears ==
    /\ qFn = "loaded"
    /\ qFn' = "getAvailableYears"
    /\ qRet' = getAvailableYears(dsData)
    /\ UNCHANGED <<dsData, qArg, dsOthers>>

NextTotals ==
    \/ QueryCalculateNationalAverages
    \/ QueryNationalAverages
    \/ QueryConsumptionRange
    \/ QueryAvailableYears

--------------------------------------------------------------------------
(* The map page: MapView and GasConsumptionMap.  A state of the model is   *)
(* a rendered state of the component; what it shows (the fill colours, the *)
(* tooltip) is a function of the state, as the render is.  React runs the  *)
(* state updates of one handler as one render, and runs a pending effect   *)
(* before it handles the next event.  A click on a feature leaves the map  *)
(* for the detail page of the feature's slug, which loads the same file.   *)

\* MapView's year buttons
YEARS == <<2015, 2016, 2017, 2018, 2019, 2020, 2021, 2022, 2023, 2024>>

\* the statnaam of the features of the boundary file: one carries a suffix
\* the consumption file may lack, one never occurs in the consumption file
FeatureNames ==
    {<<"Laren", SP, LP, "gemeente", RP>>, <<"Beek">>, <<"Ede">>}

\* the records of the consumption file of the map page
FileNames == {<<"Laren">>, <<"Laren", SP, LP, "gemeente", RP>>, <<"Beek">>}

\* the years of the file: two in a row and one after a gap
FileYears == {2015, 2016, 2018}

FileValues == {Num(0), Num(10)}

FileRecords ==
    [municipality : FileNames, year : FileYears, gas_consumption : FileValues]

\* the longest consumption file of the map page
MaxFileRecords == 2

Files == UNION {[1..n -> FileRecords] : n \in 0..MaxFileRecords}

\* the dependencies of the effect that fills consumptionByMunicipality
CurrentDeps == [consumptionData |-> consumptionData, selectedYear |-> selectedYear]

EffectPending == effectDeps # CurrentDeps

\* the route is "/", the map page: no click has led to a detail page
OnMapPage == detailSlug = NoName

\* the map is on screen (not "Loading map data...").  After a click the
\* variables of the map keep the values of the map's last render.
MapRendered == geoData # NoValue /\ consumptionData # NoValue

\* the memo nationalAverage
nationalAverage ==
    IF consumptionData = NoValue THEN Num(0)
    ELSE LET OfYear(r) == r.year = selectedYear
             yearData == SelectSeq(consumptionData.data, OfYear)
             values == [i \in 1..Len(yearData) |-> yearData[i].gas_consumption]
         IN IF Len(yearData) = 0 THEN Num(0)
            ELSE MathRound(NumDiv(Sum(values), Num(Len(yearData))))

\* the memo previousYearConsumption
previousYearConsumption ==
    IF consumptionData = NoValue THEN <<>>
    ELSE getConsumptionByYear(consumptionData.data, selectedYear - 1)

\* getSparklineData
getSparklineData(municipalityName) ==
    IF consumptionData = NoValue THEN <<>>
    ELSE LET IsOfName(r) == r.municipality = municipalityName
             kept == SelectSeq(consumptionData.data, IsOfName)
             sorted == StableSort(kept, Years(kept))
         IN [i \in 1..Len(sorted) |->
                [year |-> sorted[i].year, value |-> sorted[i].gas_consumption]]

\* the memo tooltipData
tooltipData ==
    IF hoveredMunicipality = NoName \/ consumptionData = NoValue THEN NoValue
    ELSE
    LET normalizedName == normalizeMunicipalityName(hoveredMunicipality)
        consumption == ObjGet(consumptionByMunicipality, normalizedName)
        prevConsumption == ObjGet(previousYearConsumption, normalizedName)
        ranks == rankings(consumptionByMunicipality)
    IN [name |-> hoveredMunicipality,
        consumption |-> consumption,
        nationalAverage |-> nationalAverage,
        yearOverYearChange |->
            IF consumption # NoValue /\ prevConsumption # NoValue
            THEN PercentChange(consumption, prevConsumption)
            ELSE NoValue,
        rank |-> IF ObjHas(ranks.rankMap, normalizedName)
                 THEN ObjGet(ranks.rankMap, normalizedName) ELSE 0,
        totalMunicipalities |-> ranks.total,
        sparklineData |-> getSparklineData(hoveredMunicipality),
        color |-> IF consumption # NoValue
                  THEN getColorForConsumption(consumption, consumptionRange.min,
                                              consumptionRange.max)
                  ELSE NoDataColour]

\* style(feature).fillColor for the feature of the given statnaam
FillColor(statnaam) ==
    LET name == normalizeMunicipalityName(statnaam)
        consumption == ObjGet(consumptionByMunicipality, name)
    IN getColorForConsumption(consumption, consumptionRange.min,
                              consumptionRange.max)

Init ==
    /\ file \in Files
    /\ selectedYear = 2015
    /\ geoData = NoValue
    /\ consumptionData = NoValue
    /\ consumptionByMunicipality = <<>>
    /\ hoveredMunicipality = NoName
    /\ consumptionRange = [min |-> Num(0), max |-> Num(2500)]
    /\ effectDeps = [consumptionData |-> NoValue, selectedYear |-> 2015]
    /\ detailSlug = NoName
    /\ detailData = NoValue
    /\ detailName = NoName
    /\ detailRecords = <<>>
    /\ NamesIdle
    /\ ColourIdle
    /\ DataIdle
    /\ SlugIdle
    /\ MemoryIdle

\* loadData: both fetches have resolved
LoadData ==
    /\ OnMapPage
    /\ consumptionData = NoValue
    /\ ~EffectPending
    /\ geoData' = [features |-> FeatureNames]
    /\ consumptionData' = [data |-> file]
    /\ consumptionRange' = getConsumptionRange(file)
    /\ UNCHANGED <<file, selectedYear, consumptionByMunicipality,
                   hoveredMunicipality, effectDeps, detailVars,
                   uiOthers>>

\* the effect on [consumptionData, selectedYear]
SyncConsumptionByMunicipality ==
    /\ OnMapPage
    /\ EffectPending
    /\ consumptionByMunicipality' =
          IF consumptionData # NoValue
          THEN getConsumptionByYear(consumptionData.data, selectedYear)
          ELSE consumptionByMunicipality
    /\ effectDeps' = CurrentDeps
    /\ UNCHANGED <<file, selectedYear, geoData, consumptionData,
                   hoveredMunicipality, consumptionRange, detailVars,
                   uiOthers>>

\* a year button of MapView
SelectYear(year) ==
    /\ OnMapPage
    /\ ~EffectPending
    /\ year # selectedYear
    /\ selectedYear' = year
    /\ UNCHANGED <<file, geoData, consumptionData, consumptionByMunicipality,
                   hoveredMunicipality, consumptionRange, effectDeps,
                   detailVars, uiOthers>>

\* mouseover on a feature
MouseOver(statnaam) ==
    /\ OnMapPage
    /\ MapRendered
    /\ ~EffectPending
    /\ hoveredMunicipality' = statnaam
    /\ UNCHANGED <<file, selectedYear, geoData, consumptionData,
                   consumptionByMunicipality, consumptionRange, effectDeps,
                   detailVars,
                   uiOthers>>

\* mouseout of a feature
MouseOut ==
    /\ OnMapPage
    /\ MapRendered
    /\ ~EffectPending
    /\ hoveredMunicipality # NoName
    /\ hoveredMunicipality' = NoName
    /\ UNCHANGED <<file, selectedYear, geoData, consumptionData,
                   consumptionByMunicipality, consumptionRange, effectDeps,
                   detailVars,
                   uiOthers>>

\* click on a feature: navigate(`/municipality/${slugify(name)}`)
Click(statnaam) ==
    /\ OnMapPage
    /\ MapRendered
    /\ ~EffectPending
    /\ detailSlug' = slugify(statnaam)
    /\ UNCHANGED <<file, selectedYear, geoData, consumptionData,
                   consumptionByMunicipality, hoveredMunicipality,
                   consumptionRange, effectDeps, detailData, detailName,
                   detailRecords, uiOthers>>

\* the detail page's load(): both fetches have resolved
LoadDetail ==
    /\ ~OnMapPage
    /\ detailData = NoValue
    /\ detailData' = [data |-> file]
    /\ detailName' = DetailLoad(file, detailSlug).municipalityName
    /\ detailRecords' = DetailLoad(file, detailSlug).records
    /\ UNCHANGED <<file, selectedYear, geoData, consumptionData,
                   consumptionByMunicipality, hoveredMunicipality,
                   consumptionRange, effectDeps, detailSlug, uiOthers>>

Next ==
    \/ LoadData
    \/ SyncConsumptionByMunicipality
    \/ \E i \in 1..Len(YEARS) : SelectYear(YEARS[i])
    \/ \E statnaam \in FeatureNames : MouseOver(statnaam)
    \/ MouseOut
    \/ \E statnaam \in FeatureNames : Click(statnaam)
    \/ LoadDetail

--------------------------------------------------------------------------
(* slugify applied to one string, to its own result, to a string that      *)
(* differs from the first in the case of its letters, and to the first     *)
(* string without its apostrophes                                          *)

\* the characters of the input strings: letters in both cases, with and
\* without an accent, a digit, a space, a hyphen, and the apostrophe in
\* its three variants U+0027, U+2018, U+2019
SlugChars ==
    {"a", "A", "1", "<U+00E9>", "<U+00C9>", SP, "-", "'", "<U+2018>",
     "<U+2019>"}

\* the longest input string
MaxSlugLen == 3

SlugInputs == UNION {[1..n -> SlugChars] : n \in 0..MaxSlugLen}

\* the same letter in the other case; a character that is no letter is left
SwapCase(c) ==
    CASE c = "a" -> "A"
      [] c = "A" -> "a"
      [] c = "<U+00E9>" -> "<U+00C9>"
      [] c = "<U+00C9>" -> "<U+00E9>"
      [] OTHER -> c

\* s with the letters at the positions P in the other case
CaseVariant(s, P) ==
    [i \in 1..Len(s) |-> IF i \in P THEN SwapCase(s[i]) ELSE s[i]]

IsApostropheVariant(c) == c \in {"'", "<U+2018>", "<U+2019>"}

IsAsciiAlnum(c) == c \in {"a", "A", "1"}

\* s without the apostrophes of any variant: what is in front of them
\* followed by what is behind them
WithoutApostropheVariants(s) ==
    LET Kept(c) == ~IsApostropheVariant(c) IN SelectSeq(s, Kept)

InitSlug ==
    /\ sgInput \in SlugInputs
    /\ sgPhase = "input"
    /\ sgOut = NoName
    /\ sgOut2 = NoName
    /\ sgOther = NoName
    /\ sgOtherOut = NoName
    /\ NamesIdle
    /\ ColourIdle
    /\ DataIdle
    /\ MapIdle
    /\ MemoryIdle

CallSlugify ==
    /\ sgPhase = "input"
    /\ sgPhase' = "slugified"
    /\ sgOut' = slugify(sgInput)
    /\ UNCHANGED <<sgInput, sgOut2, sgOther, sgOtherOut, sgOthers>>

CallSlugifyAgain ==
    /\ sgPhase = "slugified"
    /\ sgPhase' = "again"
    /\ sgOut2' = slugify(sgOut)
    /\ UNCHANGED <<sgInput, sgOut, sgOther, sgOtherOut, sgOthers>>

CallSlugifyCaseVariant(P) ==
    /\ sgPhase = "slugified"
    /\ sgPhase' = "variant"
    /\ sgOther' = CaseVariant(sgInput, P)
    /\ sgOtherOut' = slugify(CaseVariant(sgInput, P))
    /\ UNCHANGED <<sgInput, sgOut, sgOut2, sgOthers>>

CallSlugifyJoined ==
    /\ sgPhase = "slugified"
    /\ sgPhase' = "joined"
    /\ sgOther' = WithoutApostropheVariants(sgInput)
    /\ sgOtherOut' = slugify(WithoutApostropheVariants(sgInput))
    /\ UNCHANGED <<sgInput, sgOut, sgOut2, sgOthers>>

NextSlug ==
    \/ CallSlugify
    \/ CallSlugifyAgain
    \/ \E P \in SUBSET (1..Len(sgInput)) : CallSlugifyCaseVariant(P)
    \/ CallSlugifyJoined

--------------------------------------------------------------------------
(* The dataset in memory.  arrays holds the arrays alive during a call:    *)
(* arrays[1] is data.data, and an array made during the call comes last.   *)
(* filter, map, Object.entries, Array.from and the spread [...x] make a    *)
(* new array; sort orders the array it is called on and returns that same  *)
(* array; push appends to the array it is called on.  No function of the   *)
(* source assigns to a field of a record.                                  *)

\* the arrays after a method has made the array items
NewArray(arrays, items) == Append(arrays, items)

\* the array last made: the receiver of the next method of a chain
Receiver(arrays) == Len(arrays)

\* arrays[ref].sort(...), keys[i] the key of arrays[ref][i]
SortArray(arrays, ref, keys) ==
    [arrays EXCEPT ![ref] = StableSort(arrays[ref], keys)]

\* arrays[ref].push(v)
PushArray(arrays, ref, v) == [arrays EXCEPT ![ref] = Append(arrays[ref], v)]

\* findMunicipalityBySlug: data.data.map((r) => r.municipality)
FindMunicipalityBySlugInMemory(arrays) ==
    NewArray(arrays,
             [i \in 1..Len(arrays[1]) |-> arrays[1][i].municipality])

\* data.data.sort(by year).filter((r) => r.municipality === name)
MunicipalityRecordsInMemory_sortFirst(arrays, name) ==
    LET IsOfName(r) == r.municipality = name
        sorted == SortArray(arrays, 1, Years(arrays[1]))
    IN NewArray(sorted, SelectSeq(sorted[1], IsOfName))

\* data.data.filter((r) => r.municipality === name).sort(by year)
MunicipalityRecordsInMemory(arrays, name) ==
    LET IsOfName(r) == r.municipality = name
        filtered == NewArray(arrays, SelectSeq(arrays[1], IsOfName))
    IN SortArray(filtered, Receiver(filtered),
                 Years(filtered[Receiver(filtered)]))

\* the detail page's load() for the route parameter slug, and enrichedData
\* on the records it has set: records.map twice
LoadInMemory(arrays, slug) ==
    IF slug = <<>> THEN arrays
    ELSE
    LET mapped == FindMunicipalityBySlugInMemory(arrays)
        name == FindFrom(DistinctInOrder(mapped[Receiver(mapped)]), slug, 1)
    IN IF name = NoName THEN mapped
       ELSE LET loaded == MunicipalityRecordsInMemory(mapped, name)
                recs == loaded[Receiver(loaded)]
                values == NewArray(loaded, Consumptions(recs))
            IN IF recs = <<>> THEN loaded
               ELSE NewArray(values,
                             [index \in 1..Len(recs) |->
                                 [year |-> recs[index].year,
                                  yearOverYearChange |->
                                      YearOverYearChange(recs, index)]])

\* getSparklineData: filter, sort, map
SparklineInMemory(arrays, name) ==
    LET sorted == MunicipalityRecordsInMemory(arrays, name)
        recs == sorted[Receiver(sorted)]
    IN NewArray(sorted,
                [i \in 1..Len(recs) |->
                    [year |-> recs[i].year, value |-> recs[i].gas_consumption]])

\* the loop of rankingsPerYear over the first n years: filter, then sort
RECURSIVE YearRankingsInMemory(_, _, _)
YearRankingsInMemory(arrays, years, n) ==
    IF n = 0 THEN arrays
    ELSE LET before == YearRankingsInMemory(arrays, years, n - 1)
             OfYear(r) == r.year = years[n]
             filtered == NewArray(before, SelectSeq(before[1], OfYear))
         IN SortArray(filtered, Receiver(filtered),
                      Consumptions(filtered[Receiver(filtered)]))

\* rankingsPerYear: years = [...new Set(data.data.map((r) => r.year))]
RankingsPerYearInMemory(arrays) ==
    LET mapped == NewArray(arrays,
                           [i \in 1..Len(arrays[1]) |-> arrays[1][i].year])
        spread == NewArray(mapped, DistinctInOrder(mapped[Receiver(mapped)]))
        years == spread[Receiver(spread)]
    IN YearRankingsInMemory(spread, years, Len(years))

\* the map's rankings: Object.entries(...).filter(...).sort(...)
RankingsInMemory(arrays, byMunicipality) ==
    LET entries == NewArray(arrays, byMunicipality)
        kept == NewArray(entries, SelectSeq(byMunicipality, HasValue))
    IN SortArray(kept, Receiver(kept), Values(kept[Receiver(kept)]))

\* the map's nationalAverage: data.data.filter((r) => r.year === selectedYear)
NationalAverageInMemory(arrays, year) ==
    LET OfYear(r) == r.year = year
    IN NewArray(arrays, SelectSeq(arrays[1], OfYear))

\* the first loop of the detail page's nationalAverages over the first n
\* records: yearGroups[record.year] is a new array the first time, and the
\* consumption is pushed to it
RECURSIVE YearGroupsUpTo(_, _)
YearGroupsUpTo(arrays, n) ==
    IF n = 0 THEN [arrays |-> arrays, yearGroups |-> <<>>]
    ELSE
    LET before == YearGroupsUpTo(arrays, n - 1)
        record == before.arrays[1][n]
        made == IF ObjHas(before.yearGroups, record.year) THEN before
                ELSE LET grown == NewArray(before.arrays, <<>>)
                     IN [arrays |-> grown,
                         yearGroups |-> ObjSet(before.yearGroups, record.year,
                                               Receiver(grown))]
    IN [arrays |-> PushArray(made.arrays,
                             ObjGet(made.yearGroups, record.year),
                             record.gas_consumption),
        yearGroups |-> made.yearGroups]

\* nationalAverages: the groups, then Object.entries(yearGroups)
NationalAveragesInMemory(arrays) ==
    LET grouped == YearGroupsUpTo(arrays, Len(arrays[1]))
    IN NewArray(grouped.arrays, IntegerKeyEntries(grouped.yearGroups))

\* getAvailableYears: Array.from(years).sort((a, b) => b - a)
AvailableYearsInMemory(arrays) ==
    LET made == NewArray(arrays, YearsInOrder(arrays[1]))
        years == made[Receiver(made)]
    IN SortArray(made, Receiver(made),
                 [i \in 1..Len(years) |-> Num(0 - years[i])])

\* calculateNationalAverages: Object.entries(yearlyTotals).map(...).sort(...)
CalculateNationalAveragesInMemory(arrays) ==
    LET entries == IntegerKeyEntries(YearlyTotalsUpTo(arrays[1],
                                                      Len(arrays[1])))
        made == NewArray(arrays, entries)
        mapped == NewArray(made,
                           [i \in 1..Len(entries) |->
                               [year |-> entries[i].key,
                                average |->
                                    MathRound(NumDiv(entries[i].value.sum,
                                        Num(entries[i].value.count)))]])
    IN SortArray(mapped, Receiver(mapped), Years(mapped[Receiver(mapped)]))

--------------------------------------------------------------------------
(* Calls on one page's dataset, one after the other in any order *)

\* the longest sequence of calls
MaxCalls == 2

\* the slugs of the routes asked for
CallSlugs == {slugify(n) : n \in FeatureNames \cup FileNames}

InitMemory ==
    /\ loadedData \in Files
    /\ liveData = loadedData
    /\ callCount = 0
    /\ lastCall = "loaded"
    /\ NamesIdle
    /\ ColourIdle
    /\ DataIdle
    /\ MapIdle
    /\ SlugIdle

\* what every call does besides what it does to the array
Called(name) ==
    /\ callCount < MaxCalls
    /\ callCount' = callCount + 1
    /\ lastCall' = name
    /\ UNCHANGED <<loadedData, memOthers>>

\* getConsumptionByYear and getConsumptionRange read data.data in a for-of
\* loop and make no array
CallGetConsumptionByYear ==
    /\ Called("getConsumptionByYear")
    /\ UNCHANGED liveData

CallGetConsumptionRange ==
    /\ Called("getConsumptionRange")
    /\ UNCHANGED liveData

CallGetAvailableYears ==
    /\ Called("getAvailableYears")
    /\ liveData' = AvailableYearsInMemory(<<liveData>>)[1]

CallFindMunicipalityBySlug ==
    /\ Called("findMunicipalityBySlug")
    /\ liveData' = FindMunicipalityBySlugInMemory(<<liveData>>)[1]

CallCalculateNationalAverages ==
    /\ Called("calculateNationalAverages")
    /\ liveData' = CalculateNationalAveragesInMemory(<<liveData>>)[1]

CallNationalAverages ==
    /\ Called("nationalAverages")
    /\ liveData' = NationalAveragesInMemory(<<liveData>>)[1]

CallNationalAverage(year) ==
    /\ Called("nationalAverage")
    /\ liveData' = NationalAverageInMemory(<<liveData>>, year)[1]

CallRankings(year) ==
    /\ Called("rankings")
    /\ liveData' =
          RankingsInMemory(<<liveData>>,
                           getConsumptionByYear(liveData, year))[1]

CallRankingsPerYear ==
    /\ Called("rankingsPerYear")
    /\ liveData' = RankingsPerYearInMemory(<<liveData>>)[1]

CallGetSparklineData(name) ==
    /\ Called("getSparklineData")
    /\ liveData' = SparklineInMemory(<<liveData>>, name)[1]

CallLoad(routeSlug) ==
    /\ Called("load")
    /\ liveData' = LoadInMemory(<<liveData>>, routeSlug)[1]

NextMemory ==
    \/ CallGetConsumptionByYear
    \/ CallGetConsumptionRange
    \/ CallGetAvailableYears
    \/ CallFindMunicipalityBySlug
    \/ CallCalculateNationalAverages
    \/ CallNationalAverages
    \/ \E year \in FileYears : CallNationalAverage(year)
    \/ \E year \in FileYears : CallRankings(year)
    \/ CallRankingsPerYear
    \/ \E name \in FeatureNames \cup FileNames : CallGetSparklineData(name)
    \/ \E routeSlug \in CallSlugs : CallLoad(routeSlug)

--------------------------------------------------------------------------
(* The specifications *)

SpecNames == InitNames /\ [][NextNames]_vars

SpecColour == InitColour /\ [][NextColour]_vars

SpecData == InitData /\ [][NextData]_vars

Spec == Init /\ [][Next]_vars

SpecSlug == InitSlug /\ [][NextSlug]_vars

SpecTotals == InitTotals /\ [][NextTotals]_vars

SpecMemory == InitMemory /\ [][NextMemory]_vars

--------------------------------------------------------------------------
(* Claims about normalizeMunicipalityName (checked under SpecNames) *)

\* the listed suffixes that occur in s
SuffixesIn(s) == {k \in SuffixIds : Occurs(s, Suffixes[k])}

\* s carries at most one listed suffix, once: none is left, and none comes
\* into being, when its first occurrence is taken out
CarriesAtMostOneSuffix(s) ==
    /\ Cardinality(SuffixesIn(s)) <= 1
    /\ \A k \in SuffixesIn(s) : SuffixesIn(ReplaceFirst(s, Suffixes[k])) = {}

\* C1 (as claimed): normalizeMunicipalityName is idempotent for every input
\* string: normalizing the result of a call again gives that result.
C1_Idempotent ==
    nmPhase = "renormalized" => nmOut2 = nmOut

\* C10 (as claimed): for every input string, the removals of the listed
\* suffixes made in any order, followed by the trim, give the result of
\* normalizeMunicipalityName.
C10_AnyOrderSameResult ==
    nmPhase = "stripped" => nmCur = normalizeMunicipalityName(nmInput)

\* C10 (amended): for every input string that carries at most one listed
\* suffix, once (no listed suffix occurs in what is left when its first
\* occurrence is removed), the removals of the listed suffixes made in any
\* order, followed by the trim, give the result of normalizeMunicipalityName.
C10_AnyOrderSameResultOneSuffix ==
    (nmPhase = "stripped" /\ CarriesAtMostOneSuffix(nmInput))
        => nmCur = normalizeMunicipalityName(nmInput)

\* C10 witness: all removals were made out of turn on a name that carries
\* one suffix, and the suffix and the leading blank are gone.
C10_Witness ==
    /\ nmPhase = "stripped"
    /\ CarriesAtMostOneSuffix(nmInput)
    /\ SuffixesIn(nmInput) # {}
    /\ IsWhitespace(Head(nmInput))
    /\ nmCur = <<"Laren">>

--------------------------------------------------------------------------
(* Claims about getColorForConsumption (checked under SpecColour) *)

\* a colour of three integer channels
IsDefinedColour(c) ==
    /\ c.css = "rgb"
    /\ \A ch \in {c.r, c.g, c.b} : IsFinite(ch) /\ IsInteger(ch)

\* n lies between the two ends a and b, whichever is the larger
Between(n, a, b) ==
    /\ NumLeq(Num(IF a < b THEN a ELSE b), n)
    /\ NumLeq(n, Num(IF a < b THEN b ELSE a))

\* every channel lies between the light and the dark end of the gradient
OnGradient(c) ==
    /\ IsDefinedColour(c)
    /\ Between(c.r, LightColour.r, DarkColour.r)
    /\ Between(c.g, LightColour.g, DarkColour.g)
    /\ Between(c.b, LightColour.b, DarkColour.b)

\* C3 (as claimed): for min < max, a value below min gets the colour of min,
\* a value above max gets the colour of max, and every channel of a returned
\* colour lies between the light and the dark end of the gradient.
C3_RatioClamped ==
    (colPhase = "coloured" /\ colValue # NoValue /\ NumLess(colMin, colMax))
        => /\ NumLess(colValue, colMin)
                => colOut = getColorForConsumption(colMin, colMin, colMax)
           /\ NumLess(colMax, colValue)
                => colOut = getColorForConsumption(colMax, colMin, colMax)
           /\ OnGradient(colOut)

\* C4 (as claimed): for min = max, getColorForConsumption returns a colour of
\* three integer channels for every numeric value, also for the values the
\* Legend component passes it.
C4_DegenerateRangeDefined ==
    /\ (colPhase = "coloured" /\ colValue # NoValue /\ colMin = colMax)
            => IsDefinedColour(colOut)
    /\ (colPhase = "legend" /\ colMin = colMax)
            => \A j \in DOMAIN legendItems : IsDefinedColour(legendItems[j].color)

--------------------------------------------------------------------------
(* Claims about the aggregations (checked under SpecData) *)

\* the positions of the dataset's records of a year
RecordsOfYear(year) == {i \in 1..Len(dsData) : dsData[i].year = year}

\* the normalized names of the records of a year
NormalizedNamesOfYear(year) ==
    {normalizeMunicipalityName(dsData[i].municipality) : i \in RecordsOfYear(year)}

SetMax(S) == CHOOSE x \in S : \A y \in S : y <= x

SetMin(S) == CHOOSE x \in S : \A y \in S : x <= y

\* the ranks a ranking object holds, and the totals
RanksOf(obj) == {obj[i].value.rank : i \in 1..Len(obj)}

TotalsOf(obj) == {obj[i].value.total : i \in 1..Len(obj)}

\* C2 (as claimed): for every year of the dataset the per-year ranking holds
\* exactly the ranks 1..N, each once, N the number of records of the year,
\* and every total is N -- in the detail page's rankingsPerYear and in the
\* map component's rankings.
C2_RanksContiguous ==
    /\ qFn = "rankingsPerYear" =>
         \A year \in YearsOf(dsData) :
            LET N == Cardinality(RecordsOfYear(year)) IN
            /\ RanksOf(qRet[year]) = 1..N
            /\ Len(qRet[year]) = N
            /\ TotalsOf(qRet[year]) = {N}
    /\ (qFn = "rankings" /\ qArg \in YearsOf(dsData)) =>
            LET N == Cardinality(RecordsOfYear(qArg)) IN
            /\ {qRet.rankMap[i].value : i \in 1..Len(qRet.rankMap)} = 1..N
            /\ Len(qRet.rankMap) = N
            /\ qRet.total = N

\* C2 (amended): with N the number of records of a year and M the number of
\* distinct normalized names among them, the detail page's ranking of the
\* year gives M names M different ranks out of 1..N, every total is N, and
\* the ranks are exactly 1..N when M = N; the map component's ranking of the
\* year gives M names exactly the ranks 1..M, each once, and its total is M.
C2_RanksOfDistinctNames ==
    /\ qFn = "rankingsPerYear" =>
         \A year \in YearsOf(dsData) :
         \A names \in {NormalizedNamesOfYear(year)} :
            LET N == Cardinality(RecordsOfYear(year))
                M == Cardinality(names)
            IN
            /\ ObjKeys(qRet[year]) = names
            /\ Len(qRet[year]) = M
            /\ RanksOf(qRet[year]) \subseteq 1..N
            /\ Cardinality(RanksOf(qRet[year])) = M
            /\ TotalsOf(qRet[year]) = {N}
            /\ M = N => RanksOf(qRet[year]) = 1..N
    /\ qFn = "rankings" =>
         \A names \in {NormalizedNamesOfYear(qArg)} :
            LET M == Cardinality(names) IN
            /\ ObjKeys(qRet.rankMap) = names
            /\ {qRet.rankMap[i].value : i \in 1..Len(qRet.rankMap)} = 1..M
            /\ Len(qRet.rankMap) = M
            /\ qRet.total = M

\* C2 witness: the map component ranked a year of three records, two of
\* which normalize to one name.
C2_Witness ==
    /\ qFn = "rankings"
    /\ Cardinality(RecordsOfYear(qArg)) = 3
    /\ Cardinality(NormalizedNamesOfYear(qArg)) = 2
    /\ qRet.total = 2

\* C5: the map returned by getConsumptionByYear(dataset, year) has exactly
\* the normalized names of the records of that year as keys, each once, and
\* the value of a key is the consumption of the last record of that year
\* that normalizes to it.
C5_ConsumptionByYearLastWins ==
    qFn = "getConsumptionByYear" =>
        \A norm \in {[i \in 1..Len(dsData) |->
                        normalizeMunicipalityName(dsData[i].municipality)]} :
        \A names \in {{norm[i] : i \in RecordsOfYear(qArg)}} :
        /\ ObjKeys(qRet) = names
        /\ Len(qRet) = Cardinality(names)
        /\ \A k \in names :
              LET last == SetMax({i \in RecordsOfYear(qArg) : norm[i] = k})
              IN ObjGet(qRet, k) = dsData[last].gas_consumption

\* C5 witness: two records of the year normalize to one name and differ in
\* consumption, and a record of another year is in the dataset.
C5_Witness ==
    /\ qFn = "getConsumptionByYear"
    /\ \E i, j \in RecordsOfYear(qArg) :
          /\ i < j
          /\ normalizeMunicipalityName(dsData[i].municipality)
                = normalizeMunicipalityName(dsData[j].municipality)
          /\ dsData[i].gas_consumption # dsData[j].gas_consumption
    /\ \E i \in 1..Len(dsData) : dsData[i].year # qArg

\* the positions of the records whose name has the slug
RecordsWithSlug(slug) ==
    {i \in 1..Len(dsData) : slugify(dsData[i].municipality) = slug}

\* C6: findMunicipalityBySlug(dataset, slug) returns null exactly when no
\* name of the dataset has the slug, and otherwise the name with that slug
\* that the dataset holds first (also for an empty dataset, an empty slug).
C6_FindBySlugFirstOrNull ==
    qFn = "findMunicipalityBySlug" =>
        IF RecordsWithSlug(qArg) = {}
        THEN qRet = NoName
        ELSE qRet = dsData[SetMin(RecordsWithSlug(qArg))].municipality

\* C6 witness: two different names of the dataset have the slug asked for.
C6_Witness ==
    /\ qFn = "findMunicipalityBySlug"
    /\ qRet # NoName
    /\ \E i, j \in RecordsWithSlug(qArg) :
          dsData[i].municipality # dsData[j].municipality

\* C7 (as claimed): for every name n of the dataset,
\* findMunicipalityBySlug(dataset, slugify(n)) = n.
C7_SlugRoundTrip ==
    qFn = "findMunicipalityBySlug" =>
        \A i \in RecordsWithSlug(qArg) : qRet = dsData[i].municipality

\* where the dataset holds a name first
FirstSeen(name) ==
    SetMin({i \in 1..Len(dsData) : dsData[i].municipality = name})

\* C7 (amended): for every name n of the dataset,
\* findMunicipalityBySlug(dataset, slugify(n)) is a name of the dataset with
\* the slug of n, and it is n exactly when no other name with that slug is
\* first seen in the dataset before n; so it is n for every name when the
\* slugs of the dataset's names are pairwise different.
C7_SlugRoundTripUpToCollision ==
    qFn = "findMunicipalityBySlug" =>
        \A i \in RecordsWithSlug(qArg) :
            /\ qRet # NoName
            /\ slugify(qRet) = qArg
            /\ \E j \in 1..Len(dsData) : dsData[j].municipality = qRet
            /\ qRet = dsData[i].municipality
                 <=> ~\E j \in RecordsWithSlug(qArg) :
                        /\ dsData[j].municipality # dsData[i].municipality
                        /\ FirstSeen(dsData[j].municipality)
                             < FirstSeen(dsData[i].municipality)

\* C7 witness: the dataset holds two names of different slugs, and the slug
\* of the second one led back to it.
C7_Witness ==
    /\ qFn = "findMunicipalityBySlug"
    /\ Len(dsData) >= 2
    /\ slugify(dsData[1].municipality) # qArg
    /\ slugify(dsData[2].municipality) = qArg
    /\ qRet = dsData[2].municipality

\* v is (current - previous) / previous * 100
IsPercentChange(v, current, previous) ==
    IF previous.num = 0
    THEN v = [num |-> Sign(current.num), den |-> 0]
    ELSE /\ IsFinite(v)
         /\ v.num * current.den * previous.num
              = 100 * (current.num * previous.den - previous.num * current.den)
                    * v.den

\* how often record r occurs in the array s
Occurrences(s, r) == Cardinality({i \in 1..Len(s) : s[i] = r})

\* C8: the detail page's records are the municipality's records in ascending
\* order of year; the first one's year-over-year change is null, and every
\* later one's is (current - previous) / previous * 100 with the record just
\* before it as previous.
C8_YearOverYearChange ==
    (qFn = "detail" /\ qRet.municipalityName # NoName) =>
        LET records == qRet.records
            enriched == qRet.enrichedData
        IN
        /\ Len(records) >= 1
        /\ \A r \in DataRecords :
              Occurrences(records, r)
                = IF r.municipality = qRet.municipalityName
                  THEN Occurrences(dsData, r) ELSE 0
        /\ \A i, j \in 1..Len(records) :
              i < j => records[i].year <= records[j].year
        /\ Len(enriched) = Len(records)
        /\ enriched[1].yearOverYearChange = NoValue
        /\ \A i \in 2..Len(records) :
              /\ enriched[i].yearOverYearChange # NoValue
              /\ IsPercentChange(enriched[i].yearOverYearChange,
                                 records[i].gas_consumption,
                                 records[i - 1].gas_consumption)

\* C8 witness: the dataset holds the later year's record first, and the
\* record of the later year got a change of +50 %.
C8_Witness ==
    /\ qFn = "detail"
    /\ Len(dsData) >= 2
    /\ dsData[1].municipality = dsData[2].municipality
    /\ dsData[1].year > dsData[2].year
    /\ qRet.municipalityName = dsData[1].municipality
    /\ Len(qRet.enrichedData) = 2
    /\ qRet.enrichedData[2].yearOverYearChange = Num(50)

--------------------------------------------------------------------------
(* Claims about the map page (specification Spec) *)

\* the records of the loaded file that the map joins to a feature in the
\* selected year
RecordsOfFeature(statnaam) ==
    {i \in 1..Len(consumptionData.data) :
        /\ consumptionData.data[i].year = selectedYear
        /\ normalizeMunicipalityName(consumptionData.data[i].municipality)
             = normalizeMunicipalityName(statnaam)}

\* the map is on screen and consumptionByMunicipality is up to date
MapSettled == MapRendered /\ ~EffectPending

\* C9 (as claimed): on the rendered map, a feature with no record in the
\* selected year is filled "#ccc" and its tooltip holds a null consumption
\* and the colour "#ccc", while a feature whose record holds 0 is filled
\* with a colour of the gradient and its tooltip holds the consumption 0 and
\* a colour of the gradient.
C9_MissingAndZeroDistinct ==
    MapSettled =>
        \A statnaam \in FeatureNames :
            LET joined == RecordsOfFeature(statnaam)
                hovered == hoveredMunicipality = statnaam
            IN
            /\ joined = {} =>
                  /\ FillColor(statnaam) = NoDataColour
                  /\ hovered => /\ tooltipData.consumption = NoValue
                                /\ tooltipData.color = NoDataColour
            /\ (joined # {}
                  /\ consumptionData.data[SetMax(joined)].gas_consumption
                       = Num(0)) =>
                  /\ OnGradient(FillColor(statnaam))
                  /\ hovered => /\ tooltipData.consumption = Num(0)
                                /\ OnGradient(tooltipData.color)

--------------------------------------------------------------------------
(* Claims about slugify (specification SpecSlug) *)

\* C11: slugify is idempotent: slugify(slugify(x)) = slugify(x) for every
\* string x.
C11_SlugifyIdempotent ==
    sgPhase = "again" => sgOut2 = sgOut

\* C11 witness: slugify was applied to the slug of a string that it had
\* changed, a string that begins with a space.
C11_Witness ==
    /\ sgPhase = "again"
    /\ Len(sgInput) >= 2
    /\ sgInput[1] = SP
    /\ sgOut # <<>>
    /\ sgOut # sgInput

\* the string is a q b: a and b not empty and of ASCII letters and digits,
\* q one apostrophe of any variant
IsApostropheBetweenAlnum(s) ==
    \E i \in 2..(Len(s) - 1) :
        /\ IsApostropheVariant(s[i])
        /\ \A j \in (1..Len(s)) \ {i} : IsAsciiAlnum(s[j])

\* C12 (as claimed): for alphanumeric a and b and an apostrophe q of any
\* variant (straight or curly), slugify(a q b) = slugify(a b): no hyphen is
\* left in the place of the apostrophe.
C12_ApostropheVariantsStripped ==
    (sgPhase = "joined" /\ IsApostropheBetweenAlnum(sgInput))
        => /\ sgOut = sgOtherOut
           /\ "-" \notin {sgOut[i] : i \in 1..Len(sgOut)}

\* C20: two strings that differ only in the case of their letters have the
\* same slug.
C20_SlugifyCaseInsensitive ==
    sgPhase = "variant" => sgOtherOut = sgOut

\* C20 witness: the two strings differ, in an ASCII letter and in an
\* accented one, and their slug is not empty.
C20_Witness ==
    /\ sgPhase = "variant"
    /\ \E i, j \in 1..Len(sgInput) :
          /\ sgInput[i] = "A" /\ sgOther[i] = "a"
          /\ sgInput[j] = "<U+00E9>" /\ sgOther[j] = "<U+00C9>"
    /\ sgOut # <<>>

--------------------------------------------------------------------------
(* Further claims about getColorForConsumption (specification SpecColour) *)

\* twice the distance of channel n from the middle of the two ends a and b
\* is at most 2
WithinOneOfMiddle(n, a, b) ==
    /\ IsFinite(n)
    /\ Abs(2 * n.num - (a + b) * n.den) <= 2 * n.den

\* C13: for min < max the colour of min is exactly rgb(254, 224, 210), the
\* colour of max is exactly rgb(165, 15, 21), and every channel of the
\* colour of (min + max) / 2 is within 1 of the middle of the channel's two
\* ends.
C13_GradientEndsAndMiddle ==
    (colPhase = "coloured" /\ colValue # NoValue /\ NumLess(colMin, colMax))
        => /\ colValue = colMin
                => colOut = [css |-> "rgb", r |-> Num(254), g |-> Num(224),
                             b |-> Num(210)]
           /\ colValue = colMax
                => colOut = [css |-> "rgb", r |-> Num(165), g |-> Num(15),
                             b |-> Num(21)]
           /\ colValue = NumDiv(NumAdd(colMin, colMax), Num(2))
                => /\ colOut.css = "rgb"
                   /\ WithinOneOfMiddle(colOut.r, 254, 165)
                   /\ WithinOneOfMiddle(colOut.g, 224, 15)
                   /\ WithinOneOfMiddle(colOut.b, 210, 21)

\* C13 witness: the colour of the middle of a range whose middle is no
\* integer.
C13_Witness ==
    /\ colPhase = "coloured"
    /\ colMin = Num(1)
    /\ colMax = Num(2)
    /\ colValue = Frac(3, 2)
    /\ colOut = [css |-> "rgb", r |-> Num(210), g |-> Num(120), b |-> Num(116)]

\* the red, green and blue a browser paints for the returned string: "#ccc"
\* is the short form of #cccccc, 204 for every channel
Painted(c) ==
    IF c.css = "#ccc" THEN <<Num(204), Num(204), Num(204)>>
    ELSE <<c.r, c.g, c.b>>

\* C14: for an absent value getColorForConsumption returns "#ccc" whatever
\* min and max are, and for a value within [min, max] it returns a string
\* other than "#ccc" that paints another colour than "#ccc" does.
C14_NoDataColourApart ==
    colPhase = "coloured" =>
        /\ colValue = NoValue => colOut = [css |-> "#ccc"]
        /\ (colValue # NoValue /\ NumLeq(colMin, colValue)
              /\ NumLeq(colValue, colMax))
                => /\ colOut.css # "#ccc"
                   /\ Painted(colOut) # Painted([css |-> "#ccc"])

\* C14 witness: no value, coloured for a range of one point.
C14_Witness ==
    /\ colPhase = "coloured"
    /\ colValue = NoValue
    /\ colMin = colMax
    /\ colOut = NoDataColour

--------------------------------------------------------------------------
(* Further claims about the data layer (specification SpecData) *)

\* C15 (as claimed): for any two records of a year, the one of lower
\* consumption has the better rank, and rank 1 belongs to a municipality
\* with a record of the minimum consumption of the year -- in the detail
\* page's rankingsPerYear and in the map component's rankings.
C15_LowerConsumptionBetterRank ==
    /\ qFn = "rankingsPerYear" =>
         \A year \in YearsOf(dsData) :
            LET Rank(i) ==
                  ObjGet(qRet[year],
                         normalizeMunicipalityName(dsData[i].municipality)).rank
            IN
            /\ \A i, j \in RecordsOfYear(year) :
                  NumLess(dsData[i].gas_consumption, dsData[j].gas_consumption)
                      => Rank(i) < Rank(j)
            /\ \E i \in RecordsOfYear(year) :
                  /\ Rank(i) = 1
                  /\ \A j \in RecordsOfYear(year) :
                        NumLeq(dsData[i].gas_consumption,
                               dsData[j].gas_consumption)
    /\ (qFn = "rankings" /\ qArg \in YearsOf(dsData)) =>
            LET Rank(i) ==
                  ObjGet(qRet.rankMap,
                         normalizeMunicipalityName(dsData[i].municipality))
            IN
            /\ \A i, j \in RecordsOfYear(qArg) :
                  NumLess(dsData[i].gas_consumption, dsData[j].gas_consumption)
                      => Rank(i) < Rank(j)
            /\ \E i \in RecordsOfYear(qArg) :
                  /\ Rank(i) = 1
                  /\ \A j \in RecordsOfYear(qArg) :
                        NumLeq(dsData[i].gas_consumption,
                               dsData[j].gas_consumption)

\* C15 (amended): a ranked municipality is a normalized name, and its
\* consumption is the value its rank was given for: the name's highest
\* record of the year in the detail page's ranking, the name's last record
\* of the year in the map component's.  With these, lower consumption means
\* a better rank, and the best rank of the year belongs to a municipality of
\* the lowest consumption; the best rank is 1 in the map component's
\* ranking, and in the detail page's when no two records of the year
\* normalize to one name.
C15_LowerValueBetterRank ==
    qFn \in {"rankingsPerYear", "rankings"} =>
    \A norm \in {[i \in 1..Len(dsData) |->
                    normalizeMunicipalityName(dsData[i].municipality)]} :
    LET Value(i) == dsData[i].gas_consumption
    IN
    /\ qFn = "rankingsPerYear" =>
         \A year \in YearsOf(dsData) :
            LET recs == RecordsOfYear(year)
                Same(i) == {j \in recs : norm[j] = norm[i]}
                \* the records that hold the highest consumption of their name
                highest == {i \in recs :
                              \A j \in Same(i) : NumLeq(Value(j), Value(i))}
                Rank(i) == ObjGet(qRet[year], norm[i]).rank
            IN
            /\ \A i, j \in highest :
                  NumLess(Value(i), Value(j)) => Rank(i) < Rank(j)
            /\ \E i \in highest :
                  /\ \A j \in highest :
                        /\ Rank(i) <= Rank(j)
                        /\ NumLeq(Value(i), Value(j))
                  /\ (\A j \in recs : Same(j) = {j}) => Rank(i) = 1
    /\ (qFn = "rankings" /\ qArg \in YearsOf(dsData)) =>
            LET recs == RecordsOfYear(qArg)
                Same(i) == {j \in recs : norm[j] = norm[i]}
                \* the records that are the last one of their name
                last == {i \in recs : \A j \in Same(i) : j <= i}
                Rank(i) == ObjGet(qRet.rankMap, norm[i])
            IN
            /\ \A i, j \in last :
                  NumLess(Value(i), Value(j)) => Rank(i) < Rank(j)
            /\ \E i \in last :
                  /\ Rank(i) = 1
                  /\ \A j \in last : NumLeq(Value(i), Value(j))

\* C15 witness: the detail page ranked a year of two records of two
\* municipalities that the dataset holds from the higher consumption down,
\* beside a record of another year.
C15_Witness ==
    /\ qFn = "rankingsPerYear"
    /\ Len(dsData) = 3
    /\ \E year \in YearsOf(dsData) :
          /\ Cardinality(RecordsOfYear(year)) = 2
          /\ Cardinality(NormalizedNamesOfYear(year)) = 2
          /\ \E i, j \in RecordsOfYear(year) :
                /\ i < j
                /\ NumLess(dsData[j].gas_consumption, dsData[i].gas_consumption)
                /\ ObjGet(qRet[year],
                     normalizeMunicipalityName(dsData[j].municipality)).rank = 1
                /\ ObjGet(qRet[year],
                     normalizeMunicipalityName(dsData[i].municipality)).rank = 2

--------------------------------------------------------------------------
(* Claims about the functions that sum a dataset up (SpecTotals) *)

\* the sum of the consumptions of the records at the positions S (the
\* consumptions of the datasets are integers)
RECURSIVE ConsumptionSum(_)
ConsumptionSum(S) ==
    IF S = {} THEN 0
    ELSE LET i == CHOOSE j \in S : TRUE
         IN dsData[i].gas_consumption.num + ConsumptionSum(S \ {i})

\* v is an integer at most one half away from the mean of the year's records
IsRoundedMean(v, year) ==
    LET N == Cardinality(RecordsOfYear(year))
        total == ConsumptionSum(RecordsOfYear(year))
    IN /\ IsFinite(v)
       /\ IsInteger(v)
       /\ Abs(2 * v.num * N - 2 * total) <= N

\* C16: the national averages hold exactly one entry per distinct year of
\* the dataset, the value of an entry is the mean of all records of the year
\* rounded to the nearest integer, and the entries of the home page's
\* sequence are in strictly ascending order of year.
C16_NationalAverages ==
    /\ qFn = "calculateNationalAverages" =>
          /\ {qRet[i].year : i \in 1..Len(qRet)} = YearsOf(dsData)
          /\ Len(qRet) = Cardinality(YearsOf(dsData))
          /\ \A i, j \in 1..Len(qRet) : i < j => qRet[i].year < qRet[j].year
          /\ \A i \in 1..Len(qRet) : IsRoundedMean(qRet[i].average, qRet[i].year)
    /\ qFn = "nationalAverages" =>
          /\ DOMAIN qRet = YearsOf(dsData)
          /\ \A year \in DOMAIN qRet : IsRoundedMean(qRet[year], year)

\* C16 witness: the dataset holds a later year before an earlier one, and
\* the mean of a year, 12.5, was rounded to 13.
C16_Witness ==
    /\ qFn = "calculateNationalAverages"
    /\ Len(dsData) = 3
    /\ dsData[1].year > dsData[2].year
    /\ Len(qRet) = 2
    /\ \E i \in 1..2 :
          /\ ConsumptionSum(RecordsOfYear(qRet[i].year)) = 25
          /\ Cardinality(RecordsOfYear(qRet[i].year)) = 2
          /\ qRet[i].average = Num(13)

\* C17: for a dataset that is not empty, getConsumptionRange returns min and
\* max with min <= v <= max for the consumption v of every record, of
\* whatever year, and min and max are each the consumption of a record.
C17_RangeBoundsEveryRecord ==
    (qFn = "getConsumptionRange" /\ dsData # <<>>) =>
        /\ \A i \in 1..Len(dsData) :
              /\ NumLeq(qRet.min, dsData[i].gas_consumption)
              /\ NumLeq(dsData[i].gas_consumption, qRet.max)
        /\ \E i \in 1..Len(dsData) : dsData[i].gas_consumption = qRet.min
        /\ \E i \in 1..Len(dsData) : dsData[i].gas_consumption = qRet.max

\* C17 witness: the least and the greatest consumption are in records of
\* different years, neither of them the first record.
C17_Witness ==
    /\ qFn = "getConsumptionRange"
    /\ Len(dsData) = 3
    /\ dsData[2].year # dsData[3].year
    /\ dsData[2].gas_consumption = Num(15)
    /\ dsData[3].gas_consumption = Num(0)
    /\ dsData[1].gas_consumption = Num(10)
    /\ qRet = [min |-> Num(0), max |-> Num(15)]

\* C19: getAvailableYears returns exactly the distinct years of the dataset,
\* each once, in strictly descending order; a year without a record is not
\* among them, and the empty dataset gives the empty sequence.
C19_AvailableYearsDescending ==
    qFn = "getAvailableYears" =>
        /\ {qRet[i] : i \in 1..Len(qRet)} = YearsOf(dsData)
        /\ Len(qRet) = Cardinality(YearsOf(dsData))
        /\ \A i, j \in 1..Len(qRet) : i < j => qRet[i] > qRet[j]
        /\ dsData = <<>> => qRet = <<>>

\* C19 witness: the dataset holds 2015 before 2018, one of them twice, and
\* no record of the years between.
C19_Witness ==
    /\ qFn = "getAvailableYears"
    /\ Len(dsData) = 3
    /\ dsData[1].year = 2015
    /\ dsData[2].year = 2018
    /\ qRet = <<2018, 2015>>

--------------------------------------------------------------------------
(* Further claims about the map page (specification Spec) *)

\* C18: for an empty dataset getConsumptionRange returns min = +Infinity and
\* max = -Infinity and does not throw: the map page's loadData completes
\* with that range.
C18_EmptyRangeIsIdentity ==
    (consumptionData # NoValue /\ consumptionData.data = <<>>) =>
        /\ consumptionRange = [min |-> [num |-> 1, den |-> 0],
                               max |-> [num |-> -1, den |-> 0]]
        /\ geoData # NoValue

\* C18 witness: the map page has loaded an empty consumption file and the
\* effect has run.
C18_Witness ==
    /\ MapSettled
    /\ file = <<>>
    /\ consumptionData # NoValue
    /\ consumptionByMunicipality = <<>>
    /\ consumptionRange.min = Infinity


--------------------------------------------------------------------------
(* Claims about the dataset in memory (checked under SpecMemory) *)

\* a sort of the array by year or by consumption would move a record
SortWouldReorder(data) ==
    \E i, j \in 1..Len(data) :
        /\ i < j
        /\ \/ data[j].year < data[i].year
           \/ NumLess(data[j].gas_consumption, data[i].gas_consumption)

\* C21: after any sequence of calls of the query functions and of the
\* pages' computations, data.data holds the records it was loaded with, in
\* the order it was loaded with
C21_QueriesLeaveDatasetAlone == liveData = loadedData

\* C21 witness: the longest sequence of calls has run, the last of them the
\* detail page's load, on a dataset whose records are in neither order a
\* sort of the source would put them in
C21_Witness ==
    /\ callCount = MaxCalls
    /\ lastCall = "load"
    /\ Len(loadedData) >= 2
    /\ loadedData[1].municipality = loadedData[2].municipality
    /\ SortWouldReorder(loadedData)
    /\ liveData = loadedData


--------------------------------------------------------------------------
(* Claims about the renders of the map page (checked under Spec) *)

\* C22: in every render of the map with the data loaded, the first one
\* after the load and the one right after a change of the year among them,
\* consumptionByMunicipality, which the colours, the ranking and the
\* tooltip's consumption are built from, is the map of the selected year,
\* the year the national average and the previous-year map of the same
\* render are computed for
C22_RenderedFromOneYear ==
    (OnMapPage /\ MapRendered) =>
        consumptionByMunicipality =
            getConsumptionByYear(consumptionData.data, selectedYear)


--------------------------------------------------------------------------
(* Claims that compare the map with the detail page *)

\* C23 (checked under SpecData): for a year of the dataset, the map's
\* ranking holds the same normalized names as the detail page's ranking of
\* that year, and gives each of them the same rank and the same total
C23_RankingsAgree ==
    (qFn = "rankings" /\ qArg \in YearsOf(dsData)) =>
        \A perYear \in {rankingsPerYear(dsData)[qArg]} :
            /\ ObjKeys(qRet.rankMap) = ObjKeys(perYear)
            /\ \A name \in ObjKeys(perYear) :
                  /\ ObjGet(qRet.rankMap, name) = ObjGet(perYear, name).rank
                  /\ qRet.total = ObjGet(perYear, name).total


\* C24 (checked under Spec): when a click on a feature that the map coloured
\* with a consumption value of the selected year has led to the detail
\* page, the page's load finds a municipality for the slug of the route,
\* and its normalized name is the normalized statnaam of the feature
C24_ClickLeadsToSameMunicipality ==
    detailData # NoValue =>
        \A statnaam \in geoData.features :
            (/\ slugify(statnaam) = detailSlug
             /\ ObjGet(consumptionByMunicipality,
                       normalizeMunicipalityName(statnaam)) # NoValue)
            => /\ detailName # NoName
               /\ normalizeMunicipalityName(detailName) =
                      normalizeMunicipalityName(statnaam)


\* the no-value marker or a finite number
IsNullOrFinite(v) == IF v = NoValue THEN TRUE ELSE IsFinite(v)

\* C25 (checked under Spec): the year-over-year change of the map's tooltip
\* and every year-over-year change of the detail page's enrichedData is
\* null or a finite number
C25_YearOverYearChangeFinite ==
    /\ (OnMapPage /\ tooltipData # NoValue) =>
          IsNullOrFinite(tooltipData.yearOverYearChange)
    /\ detailData # NoValue =>
          \A enriched \in {enrichedData(detailData.data, detailName,
                                        detailRecords)} :
              \A index \in 1..Len(enriched) :
                  IsNullOrFinite(enriched[index].yearOverYearChange)


\* C26 (checked under Spec): when a click on the hovered feature has led to
\* the detail page, the change the page writes for the municipality's one
\* record of the year that was selected on the map is the change the map's
\* tooltip showed for the feature, and the one is null exactly when the
\* other is
C26_ChangesAgree ==
    (/\ detailData # NoValue
     /\ hoveredMunicipality # NoName
     /\ slugify(hoveredMunicipality) = detailSlug) =>
        \A enriched \in {enrichedData(detailData.data, detailName,
                                      detailRecords)} :
            \A index \in 1..Len(enriched) :
                (/\ enriched[index].year = selectedYear
                 /\ \A other \in 1..Len(enriched) :
                       enriched[other].year = selectedYear => other = index)
                => enriched[index].yearOverYearChange =
                       tooltipData.yearOverYearChange

=============================================================================
